---- MODULE Spec2Model ----
(***************************************************************************)
(* Model of cli/flight_simulator/src/main.rs: the Game struct, its update  *)
(* and is_collision methods and the session loop of main.                  *)
(*                                                                         *)
(* The session loop is single threaded.  One iteration is split into the   *)
(* steps Poll (poll/read and the key match), Update (Game::update), Draw   *)
(* (Game::draw followed by Game::render) and CheckCollision; pc is the     *)
(* position of main between those steps.  The terminal, the keyboard, the  *)
(* clock and the random generator are the environment: a key, a clock      *)
(* reading, a spawn roll and a building are chosen at each step.  Failures *)
(* of the terminal I/O (the ? operators) are not modelled.                 *)
(***************************************************************************)
EXTENDS Integers, Sequences, FiniteSets, TLC

(***************************************************************************)
(* Program constants.                                                      *)
(***************************************************************************)
JUMP_HEIGHT == 5
GAME_WIDTH == 80
GAME_HEIGHT == 10
GAME_SPEED == 50

\* The five buildings, each a string given as its sequence of code points
\* (the fourth carries a variation selector after the building itself).
BUILDINGS == << <<127968>>, <<127970>>, <<127979>>, <<127963, 65039>>,
               <<127984>> >>

\* Column of the plane (the literal 2 of draw and is_collision).
PLANE_X == 2

\* The chars of the frame buffer, as code points.
PLANE == 128745
GROUND == 9601
BLANK == 32

(***************************************************************************)
(* Bounds of the model.                                                    *)
(***************************************************************************)
\* Admitted ticks in one run.
MaxTicks == 82
\* The spawn roll can succeed only during the first SpawnWindow ticks.
SpawnWindow == 2
\* The random choice ranges over the first NumGlyphs buildings.
NumGlyphs == 1
\* Time is absolute, so every late tick shifts all later readings: a tick can
\* be admitted later than GAME_SPEED ms after the one before it only among
\* the last LateTicks ticks of a run.
LateTicks == 1

VARIABLES
    plane_y,        \* Game.plane_y
    jumping,        \* Game.jumping
    obstacles,      \* Game.obstacles: sequence of <<x, building>>
    score,          \* Game.score
    last_update,    \* Game.last_update, in ms since Game::new
    ground_offset,  \* Game.ground_offset
    buffer,         \* Game.buffer: GAME_HEIGHT rows of GAME_WIDTH cells
    now,            \* the last reading of the monotonic clock (Instant::now)
    event,          \* the key read in this iteration, "None" outside the match
    pc,             \* position of main
    collided,       \* what the last call of is_collision in main returned
    ticks,          \* history: number of admitted updates
    air_ticks,      \* history: admitted ticks in flight since the last accepted jump
    spawn_ticks     \* history: the admitted ticks (by number) that spawned an obstacle

sim == <<plane_y, jumping, obstacles, score, last_update, ground_offset>>
hist == <<ticks, air_ticks, spawn_ticks>>
vars == <<plane_y, jumping, obstacles, score, last_update, ground_offset,
          buffer, now, event, pc, collided, ticks, air_ticks, spawn_ticks>>

(***************************************************************************)
(* Helpers for the integer operations of the code.                         *)
(***************************************************************************)
\* Stand-in for usize::MAX: the largest integer the checker represents.
USIZE_MAX == 2147483647

saturating_add(a, b) == IF a > USIZE_MAX - b THEN USIZE_MAX ELSE a + b

saturating_sub(a, b) == IF a < b THEN 0 ELSE a - b

\* A u32 is held as its 32 bits read as a signed integer, the widest the
\* checker has: 0 .. 2^31 - 1 stand for themselves and -2^31 .. -1 for
\* 2^31 .. 2^32 - 1, so that u32::MAX is -1.
U32_MAX == -1

I32_MAX == 2147483647

\* a < b as u32 values.
u32_lt(a, b) == IF (a < 0) = (b < 0) THEN a < b ELSE b < 0

\* a + 1 on 32 bits, wrapping from u32::MAX to 0.
u32_wrapping_inc(a) ==
    IF a = U32_MAX THEN 0
    ELSE IF a = I32_MAX THEN (-I32_MAX) - 1
    ELSE a + 1

(***************************************************************************)
(* Game::update, piece by piece.                                           *)
(***************************************************************************)
\* The tick gate: update returns early when less than GAME_SPEED ms passed.
AdmitsInverted(t, last) == t - last < GAME_SPEED

Admits(t, last) == ~(t - last < GAME_SPEED)

\* The plane: climb while jumping, stop the jump at the apex, else fall.
MovePlaneLateApex(y, j) ==
    IF j
    THEN [plane_y |-> saturating_add(y, 1),
          jumping |-> ~(saturating_add(y, 1) > JUMP_HEIGHT)]
    ELSE IF y > 0
         THEN [plane_y |-> saturating_sub(y, 1), jumping |-> j]
         ELSE [plane_y |-> y, jumping |-> j]

MovePlaneSlowFall(y, j) ==
    IF j
    THEN [plane_y |-> saturating_add(y, 1),
          jumping |-> ~(saturating_add(y, 1) >= JUMP_HEIGHT)]
    ELSE IF y > 1
         THEN [plane_y |-> saturating_sub(y, 1), jumping |-> j]
         ELSE [plane_y |-> y, jumping |-> j]

MovePlaneEarlyApex(y, j) ==
    IF j
    THEN [plane_y |-> saturating_add(y, 1),
          jumping |-> ~(saturating_add(y, 1) >= JUMP_HEIGHT - 1)]
    ELSE IF y > 0
         THEN [plane_y |-> saturating_sub(y, 1), jumping |-> j]
         ELSE [plane_y |-> y, jumping |-> j]

MovePlane(y, j) ==
    IF j
    THEN [plane_y |-> saturating_add(y, 1),
          jumping |-> ~(saturating_add(y, 1) >= JUMP_HEIGHT)]
    ELSE IF y > 0
         THEN [plane_y |-> saturating_sub(y, 1), jumping |-> j]
         ELSE [plane_y |-> y, jumping |-> j]

\* The ground scrolls left by one column, wrapping.
MoveGroundRight(g) == (g + 1) % GAME_WIDTH

MoveGround(g) == (g + GAME_WIDTH - 1) % GAME_WIDTH

\* Every obstacle moves left by one column.
MoveObstaclesRight(obs) ==
    [i \in DOMAIN obs |-> <<saturating_add(obs[i][1], 1), obs[i][2]>>]

MoveObstacles(obs) ==
    [i \in DOMAIN obs |-> <<saturating_sub(obs[i][1], 1), obs[i][2]>>]

\* retain(|&(x, _)| x > 0)
OnScreen(o) == o[1] > 0

RetainAll(obs) == obs

RetainOnScreen(obs) == SelectSeq(obs, OnScreen)

\* The spawn: roll is gen_ratio(1, 20), b the index BUILDINGS.choose picks.
SpawnAtFront(obs, roll, b) ==
    IF roll /\ ~(\E i \in DOMAIN obs : obs[i][1] = GAME_WIDTH - 1)
    THEN <<<<GAME_WIDTH - 1, BUILDINGS[b]>>>> \o obs
    ELSE obs

Spawn(obs, roll, b) ==
    IF roll /\ ~(\E i \in DOMAIN obs : obs[i][1] = GAME_WIDTH - 1)
    THEN Append(obs, <<GAME_WIDTH - 1, BUILDINGS[b]>>)
    ELSE obs

\* Lines 65-75 as a whole: move, retain, spawn.
UpdateObstaclesInPlace(obs, roll, b) ==
    IF roll
    THEN Append(RetainOnScreen(obs), <<GAME_WIDTH - 1, BUILDINGS[b]>>)
    ELSE RetainOnScreen(obs)

UpdateObstaclesSpawnFirst(obs, roll, b) ==
    RetainOnScreen(MoveObstacles(Spawn(obs, roll, b)))

UpdateObstacles(obs, roll, b) ==
    Spawn(RetainOnScreen(MoveObstacles(obs)), roll, b)

\* self.score += 1 on a u32: the value the addition leaves when it returns,
\* and whether it overflows.  On overflow a build with overflow checks
\* panics and a build without them wraps.
ScoreTwice(s) == u32_wrapping_inc(u32_wrapping_inc(s))

NextScore(s) == u32_wrapping_inc(s)

ScoreOverflows(s) == s = U32_MAX

(***************************************************************************)
(* Game::draw: clear, ground, plane, obstacles, each pass writing over the *)
(* result of the one before.                                               *)
(***************************************************************************)
Rows == 0..(GAME_HEIGHT - 1)
Cols == 0..(GAME_WIDTH - 1)

ClearBufferNone(buf) == buf

ClearBuffer(buf) == [r \in DOMAIN buf |-> [c \in DOMAIN buf[r] |-> BLANK]]

\* The loop over x writes GROUND into the cells (x + g) % GAME_WIDTH.
DrawGround(buf, g) ==
    LET ground_xs == {(x + g) % GAME_WIDTH : x \in 0..(GAME_WIDTH - 1)}
    IN  [buf EXCEPT ![GAME_HEIGHT - 1] =
            [c \in DOMAIN @ |-> IF c \in ground_xs THEN GROUND ELSE @[c]]]

DrawPlane(buf, y) == [buf EXCEPT ![GAME_HEIGHT - 2 - y][PLANE_X] = PLANE]

\* building.chars().next().unwrap(): the first code point of the string.
FirstChar(building) == Head(building)

RECURSIVE DrawObstacles(_, _)
DrawObstacles(buf, obs) ==
    IF obs = <<>>
    THEN buf
    ELSE DrawObstacles(
            IF Head(obs)[1] < GAME_WIDTH
            THEN [buf EXCEPT ![GAME_HEIGHT - 2][Head(obs)[1]] =
                                 FirstChar(Head(obs)[2])]
            ELSE buf,
            Tail(obs))

drawPlaneLast(buf, g, y, obs) ==
    DrawPlane(DrawObstacles(DrawGround(ClearBuffer(buf), g), obs), y)

draw(buf, g, y, obs) ==
    DrawObstacles(DrawPlane(DrawGround(ClearBuffer(buf), g), y), obs)

(***************************************************************************)
(* Game::is_collision.                                                     *)
(***************************************************************************)
is_collision_any_height ==
    \E i \in DOMAIN obstacles : obstacles[i][1] = PLANE_X

is_collision ==
    \E i \in DOMAIN obstacles : obstacles[i][1] = PLANE_X /\ plane_y = 0

(***************************************************************************)
(* The environment.                                                        *)
(***************************************************************************)
\* Key events read() can deliver; "None" is no event within the poll timeout.
Keys == {"Space", "Up", "Esc", "q", "CtrlC", "c", "Other"}

\* Clock readings of update, as time elapsed since last_update.
ClockSamples == {GAME_SPEED - 1, GAME_SPEED, GAME_SPEED + 1}

\* The guard of the jump arm of the match in main.
JumpAcceptedInAir(key, j, y) == key \in {"Space", "Up"} /\ ~j

JumpAccepted(key, j, y) == key \in {"Space", "Up"} /\ ~j /\ y = 0

QuitKeyNoQ(key) == key \in {"Esc", "CtrlC"}

QuitKey(key) == key \in {"Esc", "q", "CtrlC"}

(***************************************************************************)
(* Game::new and the entry of the loop.                                    *)
(***************************************************************************)
Init ==
    /\ plane_y = 0
    /\ jumping = FALSE
    /\ obstacles = <<>>
    /\ score = 0
    /\ last_update = 0
    /\ ground_offset = 0
    /\ buffer = [r \in Rows |-> [c \in Cols |-> BLANK]]
    /\ now = 0
    /\ event = "None"
    /\ pc = "poll"
    /\ collided = FALSE
    /\ ticks = 0
    /\ air_ticks = 0
    /\ spawn_ticks = {}

(***************************************************************************)
(* main: poll, read and the match on the key.                              *)
(***************************************************************************)
PollTimeout ==
    /\ pc = "poll"
    /\ event' = "None"
    /\ pc' = "update"
    /\ UNCHANGED <<sim, buffer, now, collided, hist>>

ReadKey ==
    /\ pc = "poll"
    /\ \E key \in Keys :
        /\ event' = key
        /\ IF JumpAccepted(key, jumping, plane_y)
           THEN /\ jumping' = TRUE
                /\ air_ticks' = 0
                /\ pc' = "update"
           ELSE /\ UNCHANGED <<jumping, air_ticks>>
                /\ pc' = IF QuitKey(key) THEN "terminated" ELSE "update"
    /\ UNCHANGED <<plane_y, obstacles, score, last_update, ground_offset,
                   buffer, now, collided, ticks, spawn_ticks>>

(***************************************************************************)
(* Game::update.                                                           *)
(***************************************************************************)
UpdateBeforeInput ==
    /\ pc = "update"
    /\ \E e \in ClockSamples :
        LET t == last_update + e
            fresh == event \in {"Space", "Up"} /\ jumping /\ plane_y = 0
            p == IF fresh
                 THEN [plane_y |-> MovePlane(plane_y, FALSE).plane_y,
                       jumping |-> TRUE]
                 ELSE MovePlane(plane_y, jumping)
            moved == RetainOnScreen(MoveObstacles(obstacles))
        IN  /\ t >= now
            /\ now' = t
            /\ IF Admits(t, last_update)
               THEN /\ ticks < MaxTicks
                    /\ e > GAME_SPEED => ticks + LateTicks >= MaxTicks
                    /\ last_update' = t
                    /\ plane_y' = p.plane_y
                    /\ jumping' = p.jumping
                    /\ ground_offset' = MoveGround(ground_offset)
                    /\ \E roll \in BOOLEAN :
                        /\ roll => ticks < SpawnWindow
                        /\ \E b \in IF roll THEN 1..NumGlyphs ELSE {1} :
                            /\ b <= Len(BUILDINGS)
                            /\ obstacles' = UpdateObstacles(obstacles, roll, b)
                    /\ IF ScoreOverflows(score)
                       THEN \/ score' = NextScore(score) /\ pc' = "draw"
                            \/ score' = score /\ pc' = "panicked"
                       ELSE score' = NextScore(score) /\ pc' = "draw"
                    /\ ticks' = ticks + 1
                    /\ air_ticks' = IF jumping \/ plane_y > 0
                                    THEN air_ticks + 1 ELSE air_ticks
                    /\ spawn_ticks' = IF obstacles' # moved
                                      THEN spawn_ticks \cup {ticks + 1}
                                      ELSE spawn_ticks
               ELSE /\ pc' = "draw"
                    /\ UNCHANGED <<sim, hist>>
    /\ event' = "None"
    /\ UNCHANGED <<buffer, collided>>

Update ==
    /\ pc = "update"
    /\ \E e \in ClockSamples :
        LET t == last_update + e
            p == MovePlane(plane_y, jumping)
            moved == RetainOnScreen(MoveObstacles(obstacles))
        IN  /\ t >= now
            /\ now' = t
            /\ IF Admits(t, last_update)
               THEN /\ ticks < MaxTicks
                    /\ e > GAME_SPEED => ticks + LateTicks >= MaxTicks
                    /\ last_update' = t
                    /\ plane_y' = p.plane_y
                    /\ jumping' = p.jumping
                    /\ ground_offset' = MoveGround(ground_offset)
                    /\ \E roll \in BOOLEAN :
                        /\ roll => ticks < SpawnWindow
                        /\ \E b \in IF roll THEN 1..NumGlyphs ELSE {1} :
                            /\ b <= Len(BUILDINGS)
                            /\ obstacles' = UpdateObstacles(obstacles, roll, b)
                    /\ IF ScoreOverflows(score)
                       THEN \/ score' = NextScore(score) /\ pc' = "draw"
                            \/ score' = score /\ pc' = "panicked"
                       ELSE score' = NextScore(score) /\ pc' = "draw"
                    /\ ticks' = ticks + 1
                    /\ air_ticks' = IF jumping \/ plane_y > 0
                                    THEN air_ticks + 1 ELSE air_ticks
                    /\ spawn_ticks' = IF obstacles' # moved
                                      THEN spawn_ticks \cup {ticks + 1}
                                      ELSE spawn_ticks
               ELSE /\ pc' = "draw"
                    /\ UNCHANGED <<sim, hist>>
    /\ event' = "None"
    /\ UNCHANGED <<buffer, collided>>

(***************************************************************************)
(* Game::draw and Game::render.                                            *)
(***************************************************************************)
Draw ==
    /\ pc = "draw"
    /\ buffer' = draw(buffer, ground_offset, plane_y, obstacles)
    /\ pc' = "check"
    /\ UNCHANGED <<sim, now, event, collided, hist>>

(***************************************************************************)
(* main: the collision check that ends the iteration.                      *)
(***************************************************************************)
CheckCollisionNoBreak ==
    /\ pc = "check"
    /\ collided' = is_collision
    /\ pc' = "poll"
    /\ UNCHANGED <<sim, buffer, now, event, hist>>

CheckCollision ==
    /\ pc = "check"
    /\ collided' = is_collision
    /\ pc' = IF collided' THEN "game_over" ELSE "poll"
    /\ UNCHANGED <<sim, buffer, now, event, hist>>

Next ==
    \/ PollTimeout
    \/ ReadKey
    \/ Update
    \/ Draw
    \/ CheckCollision

Spec == Init /\ [][Next]_vars

(***************************************************************************)
(* A long run: the game after 2^32 - 2 admitted ticks, at the start of an  *)
(* iteration, with the plane on the ground and no obstacle on screen.  The *)
(* clock and the history variables count from this state on.               *)
(***************************************************************************)
InitLongRun ==
    /\ plane_y = 0
    /\ jumping = FALSE
    /\ obstacles = <<>>
    /\ score = U32_MAX - 1
    /\ last_update = 0
    /\ ground_offset = 66
    /\ buffer = draw([r \in Rows |-> [c \in Cols |-> BLANK]], 66, 0, <<>>)
    /\ now = 0
    /\ event = "None"
    /\ pc = "poll"
    /\ collided = FALSE
    /\ ticks = 0
    /\ air_ticks = 0
    /\ spawn_ticks = {}

SpecLongRun == InitLongRun /\ [][Next]_vars

(***************************************************************************)
(* Game::draw on its own: the game right after an admitted update, for a   *)
(* range of heights, ground offsets and obstacle lists with every          *)
(* building, and one call of draw.  The buffer still holds the frame of    *)
(* the tick before.  Left out are the states no run reaches: an obstacle   *)
(* at column 1 passed the plane's column one tick earlier, so the plane    *)
(* was in the air then.                                                    *)
(***************************************************************************)
\* Numbers of the admitted tick just made: offsets 0, 79 and 1.
DrawTicks == {GAME_WIDTH, GAME_WIDTH + 1, 2 * GAME_WIDTH - 1}

\* Columns the obstacles are taken from.
DrawColumns == {1, PLANE_X, PLANE_X + 1, GAME_WIDTH - 1}

DrawObstacleLists ==
    {<<>>}
    \cup {<<<<x, BUILDINGS[b]>>>> : x \in DrawColumns, b \in DOMAIN BUILDINGS}
    \cup {l \in {<<<<x1, BUILDINGS[b1]>>, <<x2, BUILDINGS[b2]>>>> :
                    x1 \in DrawColumns, x2 \in DrawColumns,
                    b1 \in DOMAIN BUILDINGS, b2 \in DOMAIN BUILDINGS} :
            l[1][1] < l[2][1]}

\* The state one admitted tick earlier, as far as draw reads it.
PrevPlaneY(y, j) ==
    IF j THEN y - 1 ELSE IF y = JUMP_HEIGHT THEN y - 1 ELSE y + 1

OldObstacle(o) == o[1] < GAME_WIDTH - 1

PrevObstacles(obs) ==
    LET old == SelectSeq(obs, OldObstacle)
    IN  [i \in DOMAIN old |-> <<old[i][1] + 1, old[i][2]>>]

InitDraw ==
    /\ plane_y \in 0..JUMP_HEIGHT
    /\ jumping \in BOOLEAN
    /\ jumping => plane_y \in 1..(JUMP_HEIGHT - 1)
    /\ obstacles \in DrawObstacleLists
    /\ ~(/\ jumping
          /\ plane_y = 1
          /\ \E i \in DOMAIN obstacles : obstacles[i][1] < PLANE_X)
    /\ ticks \in DrawTicks
    /\ score = ticks
    /\ last_update = GAME_SPEED * ticks
    /\ now = last_update
    /\ ground_offset = (GAME_WIDTH - (ticks % GAME_WIDTH)) % GAME_WIDTH
    /\ buffer = draw([r \in Rows |-> [c \in Cols |-> BLANK]],
                     (ground_offset + 1) % GAME_WIDTH,
                     PrevPlaneY(plane_y, jumping),
                     PrevObstacles(obstacles))
    /\ event = "None"
    /\ pc = "draw"
    /\ collided = FALSE
    /\ air_ticks = IF jumping THEN plane_y ELSE 2 * JUMP_HEIGHT - plane_y
    /\ spawn_ticks = {ticks - (GAME_WIDTH - 1 - obstacles[i][1]) :
                        i \in DOMAIN obstacles}

NextDraw == Draw

SpecDraw == InitDraw /\ [][NextDraw]_vars

(***************************************************************************)
(* Properties.                                                             *)
(***************************************************************************)

\* C1: in every reachable state the height of the plane lies between 0 and
\* JUMP_HEIGHT.
C1_HeightInRange == plane_y \in 0..JUMP_HEIGHT

C1_Witness == plane_y = JUMP_HEIGHT /\ ticks >= JUMP_HEIGHT

\* C2: whenever the collision check has just been made, it returned true if
\* and only if the plane is on the ground and some obstacle is at the
\* plane's column; an obstacle there with the plane in the air, or a
\* grounded plane with no obstacle there, is no collision.
C2_CollisionIff ==
    pc \in {"poll", "game_over"} =>
        (collided <=>
            /\ plane_y = 0
            /\ PLANE_X \in {obstacles[i][1] : i \in DOMAIN obstacles})

C2_Witness ==
    /\ collided
    /\ plane_y = 0
    /\ PLANE_X \in {obstacles[i][1] : i \in DOMAIN obstacles}

\* C3: a jump key read while the plane is in the air or already jumping
\* changes no field of the simulation; read on the ground with no jump
\* under way it sets jumping and changes nothing else.
C3_JumpRequest ==
    [][(pc = "poll" /\ event' \in {"Space", "Up"}) =>
          IF plane_y = 0 /\ ~jumping
          THEN /\ jumping'
               /\ UNCHANGED <<plane_y, obstacles, score, ground_offset,
                              last_update>>
          ELSE UNCHANGED sim]_vars

C3_Witness ==
    /\ pc = "update"
    /\ event \in {"Space", "Up"}
    /\ ~jumping
    /\ plane_y > 0

\* C4: k admitted ticks after an accepted jump request the plane is at
\* height k while k <= JUMP_HEIGHT and at 2 * JUMP_HEIGHT - k after that:
\* it climbs for JUMP_HEIGHT ticks, falls for JUMP_HEIGHT ticks and is on
\* the ground again at tick 2 * JUMP_HEIGHT and at no tick before.
C4_Trajectory ==
    /\ air_ticks \in 0..(2 * JUMP_HEIGHT)
    /\ plane_y = IF air_ticks <= JUMP_HEIGHT
                 THEN air_ticks
                 ELSE 2 * JUMP_HEIGHT - air_ticks
    /\ jumping => air_ticks < JUMP_HEIGHT
    /\ air_ticks \in 1..(JUMP_HEIGHT - 1) => jumping

C4_Witness == air_ticks = 2 * JUMP_HEIGHT /\ plane_y = 0 /\ ~jumping

\* C5: at most one obstacle is in the spawn column GAME_WIDTH - 1.
C5_OneInSpawnColumn ==
    Cardinality({i \in DOMAIN obstacles :
                    obstacles[i][1] = GAME_WIDTH - 1}) <= 1

C5_Witness ==
    /\ Len(obstacles) >= 2
    /\ \E i \in DOMAIN obstacles : obstacles[i][1] = GAME_WIDTH - 1

\* C6, as stated: in spawn order the x positions never increase.
C6_NonIncreasing ==
    \A i, j \in DOMAIN obstacles :
        i < j => obstacles[i][1] >= obstacles[j][1]

\* C6, amended: in spawn order the x positions never decrease (an older
\* obstacle is never to the right of a younger one).
C6_NonDecreasing ==
    \A i, j \in DOMAIN obstacles :
        i < j => obstacles[i][1] <= obstacles[j][1]

C6_Witness ==
    /\ Len(obstacles) >= 2
    /\ obstacles[1][1] < obstacles[2][1]

\* C7: an admitted tick moves every obstacle that stays in the list left by
\* exactly one column, keeping it at 1 or more, and whatever else is in the
\* list afterwards was spawned in that tick; any other step leaves the
\* obstacles as they are.
C7_Survives(o) == o[1] > 1

C7_NoMoveRight ==
    [][IF ticks' # ticks
       THEN LET surv == SelectSeq(obstacles, C7_Survives)
            IN  /\ Len(obstacles') >= Len(surv)
                /\ \A i \in 1..Len(surv) :
                      /\ obstacles'[i] = <<surv[i][1] - 1, surv[i][2]>>
                      /\ obstacles'[i][1] >= 1
                /\ \A i \in (Len(surv) + 1)..Len(obstacles') :
                      obstacles'[i][1] = GAME_WIDTH - 1
       ELSE obstacles' = obstacles]_vars

C7_Witness ==
    /\ ticks > 0
    /\ \E i \in DOMAIN obstacles : obstacles[i][1] < GAME_WIDTH - 1

\* C8: a call of update whose clock reading is less than GAME_SPEED ms
\* after last_update changes no field of the simulation; a call that
\* changes one read the clock at least GAME_SPEED ms after last_update and
\* stored that reading in last_update, so two admitted ticks are at least
\* GAME_SPEED ms apart.
C8_TickGate ==
    [][/\ pc = "update" =>
            /\ now' - last_update < GAME_SPEED => UNCHANGED sim
            /\ ~(UNCHANGED sim) =>
                  /\ now' - last_update >= GAME_SPEED
                  /\ last_update' = now'
       /\ last_update' # last_update =>
            last_update' - last_update >= GAME_SPEED]_vars

C8_Witness == pc = "draw" /\ ticks > 0 /\ now - last_update = GAME_SPEED - 1

\* C9, over the first MaxTicks ticks of a game: score is the number of
\* admitted ticks: an admitted tick adds exactly 1 to it and no other step
\* changes it.
C9_ScoreCountsTicks ==
    /\ [](score = ticks)
    /\ [][IF ticks' # ticks THEN score' = score + 1
                            ELSE score' = score]_vars

C9_Witness == score >= 2 /\ pc = "check"

\* C9, at any length of the game: every admitted tick completes and leaves
\* the score exactly 1 above the score before it, as numbers, and no other
\* step changes the score.
C9_ScoreExact ==
    [][IF ticks' # ticks
       THEN /\ pc' # "panicked"
            /\ score # U32_MAX
            /\ score' = u32_wrapping_inc(score)
       ELSE score' = score]_vars

\* C10: the session is over exactly when the collision check at the end of
\* an iteration is true; the step that ends it changes no field of the
\* simulation, nothing happens after it, and no iteration starts with a
\* collision in place.
C10_GameOver ==
    [][/\ pc = "check" => (pc' = "game_over" <=> is_collision)
       /\ pc' = "game_over" => pc = "check" /\ UNCHANGED sim
       /\ pc # "game_over"
       /\ pc' = "poll" => ~is_collision']_vars

C10_Witness == pc = "game_over" /\ score > 0 /\ is_collision

\* C11: a quit key (Esc, q, Ctrl+C) read at the start of an iteration ends
\* the session in the state terminated, which is not game_over, whatever
\* the clock says: the step changes no field of the simulation, the frame
\* buffer or the result of the last collision check, and nothing happens
\* after it.
C11_Quit ==
    [][/\ (pc = "poll" /\ event' \in {"Esc", "q", "CtrlC"}) =>
            /\ pc' = "terminated"
            /\ UNCHANGED <<sim, buffer, now, collided, hist>>
       /\ pc' = "terminated" =>
            (pc = "poll" /\ event' \in {"Esc", "q", "CtrlC"})
       /\ pc # "terminated"]_vars

C11_Witness ==
    /\ pc = "terminated"
    /\ event \in {"Esc", "q", "CtrlC"}
    /\ ticks > 0
    /\ now - last_update = GAME_SPEED - 1

\* C12: ground_offset lies in 0 .. GAME_WIDTH - 1 and after n admitted
\* ticks it is n steps below 0 modulo GAME_WIDTH: each tick takes 1 from
\* it, wrapping, and it is 0 again after GAME_WIDTH ticks and not before.
C12_GroundOffset ==
    /\ ground_offset \in 0..(GAME_WIDTH - 1)
    /\ ground_offset = (GAME_WIDTH - (ticks % GAME_WIDTH)) % GAME_WIDTH
    /\ ground_offset = 0 <=> ticks % GAME_WIDTH = 0

C12_Witness == ticks = GAME_WIDTH /\ ground_offset = 0

\* C14: an admitted tick with jumping set lifts the plane by exactly 1 and
\* leaves jumping set exactly when the new height is below JUMP_HEIGHT, so
\* from height 0 the heights are 1, 2, 3, 4, 5 with jumping cleared at 5
\* and not earlier; in every state jumping implies plane_y < JUMP_HEIGHT.
C14_Climb ==
    /\ [](jumping => plane_y < JUMP_HEIGHT)
    /\ [][(ticks' # ticks /\ jumping) =>
            /\ plane_y' = plane_y + 1
            /\ plane_y' = air_ticks'
            /\ jumping' <=> plane_y' < JUMP_HEIGHT]_vars

C14_Witness ==
    /\ plane_y = JUMP_HEIGHT
    /\ ~jumping
    /\ air_ticks = JUMP_HEIGHT
    /\ pc = "draw"

C17_StepOrder ==
    [][/\ pc = "poll" => pc' \in {"update", "terminated"}
       /\ pc = "update" => pc' = "draw"
       /\ pc = "draw" => pc' = "check" /\ UNCHANGED sim
       /\ pc = "check" =>
            /\ pc' \in {"poll", "game_over"}
            /\ UNCHANGED sim
            /\ collided' <=>
                  /\ plane_y = 0
                  /\ \E i \in DOMAIN obstacles : obstacles[i][1] = PLANE_X
       /\ pc # "update" =>
            UNCHANGED <<plane_y, obstacles, score, ground_offset,
                        last_update>>
       /\ (/\ pc = "update"
           /\ event \in {"Space", "Up"}
           /\ jumping
           /\ plane_y = 0
           /\ ticks' # ticks) =>
            /\ plane_y' = 1
            /\ ~is_collision']_vars

C17_Witness ==
    /\ pc = "update"
    /\ event \in {"Space", "Up"}
    /\ jumping
    /\ plane_y = 0
    /\ \E i \in DOMAIN obstacles : obstacles[i][1] = PLANE_X + 1

C13_OtherBuffer == [r \in Rows |-> [c \in Cols |-> PLANE]]

C13_DrawPure ==
    [][pc = "draw" =>
          /\ UNCHANGED sim
          /\ buffer' = draw(C13_OtherBuffer, ground_offset, plane_y,
                            obstacles)
          /\ draw(buffer', ground_offset', plane_y', obstacles') = buffer'
      ]_vars

\* A frame drawn over the frame of a plane that stood one row lower.
C13_Witness ==
    /\ pc = "check"
    /\ jumping
    /\ plane_y > 1
    /\ now = last_update
    /\ buffer[GAME_HEIGHT - 2 - plane_y][PLANE_X] = PLANE
    /\ buffer[GAME_HEIGHT - 1 - plane_y][PLANE_X] = BLANK

\* C16: after draw, a cell of row GAME_HEIGHT - 2 whose column holds an
\* obstacle shows that obstacle's first char; else the cell at row
\* GAME_HEIGHT - 2 - plane_y, column 2 shows the plane; else a cell of the
\* bottom row shows the ground; else the cell is blank.  The plane's row is
\* inside the buffer, and the plane shows exactly once unless it is on the
\* ground with an obstacle at column 2, when it does not show.
C16_At(r, c) == {i \in DOMAIN obstacles : r = GAME_HEIGHT - 2 /\ obstacles[i][1] = c}

C16_PlaneCells ==
    {<<r, c>> \in Rows \X Cols : buffer[r][c] = PLANE}

C16_Frame ==
    pc = "check" =>
        /\ DOMAIN buffer = Rows
        /\ \A r \in Rows : DOMAIN buffer[r] = Cols
        /\ \A r \in Rows, c \in Cols :
              IF C16_At(r, c) # {}
              THEN \E i \in C16_At(r, c) : buffer[r][c] = obstacles[i][2][1]
              ELSE IF r = GAME_HEIGHT - 2 - plane_y /\ c = PLANE_X
                   THEN buffer[r][c] = PLANE
                   ELSE IF r = GAME_HEIGHT - 1
                        THEN buffer[r][c] = GROUND
                        ELSE buffer[r][c] = BLANK
        /\ GAME_HEIGHT - 2 - plane_y \in Rows
        /\ Cardinality(C16_PlaneCells) =
              IF plane_y = 0 /\ C16_At(GAME_HEIGHT - 2, PLANE_X) # {}
              THEN 0 ELSE 1

\* The fourth building, drawn over the plane on the ground.
C16_Witness ==
    /\ pc = "check"
    /\ plane_y = 0
    /\ \E i \in DOMAIN obstacles :
          obstacles[i] = <<PLANE_X, BUILDINGS[4]>>
    /\ buffer[GAME_HEIGHT - 2][PLANE_X] = 127963

\* C18: no admitted tick overflows or fails: it ends in no panic, the
\* score it leaves is the score before plus 1, or u32::MAX when the score
\* was u32::MAX already, and the plane, the ground and the obstacles stay
\* in their ranges.
C18_NoOverflow ==
    [][ticks' # ticks =>
          /\ pc' # "panicked"
          /\ score' = IF score = U32_MAX THEN U32_MAX
                                         ELSE u32_wrapping_inc(score)
          /\ ~u32_lt(score', score)
          /\ plane_y' \in 0..JUMP_HEIGHT
          /\ ground_offset' \in 0..(GAME_WIDTH - 1)
          /\ \A i \in DOMAIN obstacles' :
                obstacles'[i][1] \in 0..(GAME_WIDTH - 1)]_vars

====
